---- MODULE Spec2Model ----
(***************************************************************************)
(* Model of the FastAPI tool-invocation relay of the SaaS marketplace      *)
(* monorepo (README section 10, `main.py`): the route POST /trigger-tool   *)
(* reads a JSON body, forwards {user, tool, input} to the n8n webhook with *)
(* a bearer header and returns the webhook's JSON to the caller.           *)
(*                                                                         *)
(* A handler is a coroutine; it can be suspended at its two awaits         *)
(* (`await request.json()` and `await client.post(...)`), so several       *)
(* handlers can be in flight at once.  Each handler slot h carries one     *)
(* inbound request at a time.                                              *)
(***************************************************************************)
EXTENDS Integers, Sequences, FiniteSets, TLC

\* ------------------------------------------------------------------ bounds
\* Number of handler coroutines that can be in flight at the same time.
NumHandlers == 2

Handlers == 1..NumHandlers

\* ------------------------------------------------------------ Python values
\* Python's None (also what JSON null parses to).
None == "<None>"
\* A local variable that has not been assigned yet.
Unbound == "<unbound>"

\* str(v) as used by the f-string of the Authorization header.
Str(v) == IF v = None THEN "None" ELSE v

\* ------------------------------------------------------ process environment
\* os.getenv(name): the value of the variable, or None when it is not set.
\* The environment is filled by load_dotenv() when the module is imported.

Environments ==
    [OPENAI_API_KEY : {None, "sk-key"}, n8n_WEBHOOK_URL : {None, "https://n8n/webhook"}]

getenv(env, name) == env[name]

\* ----------------------------------------------------------- inbound bodies
\* An inbound body is text that is not JSON ("malformed"), JSON that is not an
\* object ("array"), or a JSON object `data` (a function from its keys).
NoData == [k \in {} |-> None]

Body(json, data) == [json |-> json, data |-> data]

Bodies ==
    { Body("malformed", NoData),
      Body("array", NoData),
      Body("object", [user_id |-> "u1", tool_id |-> "t1", input |-> "in1"]),
      Body("object", [user_id |-> "u2", tool_id |-> "t2", input |-> "in2"]),
      Body("object", [user_id |-> "u1", tool_id |-> "t2"]),
      Body("object", [tool_id |-> "t1", input |-> "in1"]),
      Body("object", [user_id |-> "u1", input |-> "in1"]),
      Body("object", [user_id |-> "", tool_id |-> "t1", input |-> "in1"]),
      Body("object", [user_id |-> "u2", tool_id |-> "", input |-> "in2"]) }

NoBody == Body("none", NoData)

\* dict.get(key): the value, or None when the key is absent.
Get(data, key) == IF key \in DOMAIN data THEN data[key] ELSE None

\* The spec's notion of a valid request: a JSON object whose user_id and
\* tool_id are present and non-empty.
ValidRequest(body) ==
    /\ body.json = "object"
    /\ Get(body.data, "user_id") \notin {None, ""}
    /\ Get(body.data, "tool_id") \notin {None, ""}

\* ------------------------------------------------------------ outbound call
\* headers = {"Authorization": f"Bearer {os.getenv('OPENAI_API_KEY')}"}
AuthHeaders(env) ==
    [Authorization |-> <<"Bearer", Str(getenv(env, "OPENAI_API_KEY"))>>]

\* A slip in the renaming: user and tool exchanged.
OutboundJsonSwapped(user_id, tool_id, input_payload) ==
    [user |-> tool_id, tool |-> user_id, input |-> input_payload]

\* json={"user": user_id, "tool": tool_id, "input": input_payload}
OutboundJson(user_id, tool_id, input_payload) ==
    [user |-> user_id, tool |-> tool_id, input |-> input_payload]

NoLocals ==
    [user_id |-> Unbound, tool_id |-> Unbound, input_payload |-> Unbound,
     headers |-> [Authorization |-> <<Unbound, Unbound>>], webhook_url |-> Unbound]

\* ------------------------------------------------------- downstream outcomes
\* What the awaited client.post can end in: a response of the webhook (status,
\* whether its body is JSON, the body), or an httpx exception.
Reply(status, is_json, body) ==
    [kind |-> "response", status |-> status, is_json |-> is_json, body |-> body]

ReadTimeout == [kind |-> "timeout", status |-> 0, is_json |-> FALSE, body |-> NoData]
ConnectError == [kind |-> "connect_error", status |-> 0, is_json |-> FALSE, body |-> NoData]
NoOutcome == [kind |-> "none", status |-> 0, is_json |-> FALSE, body |-> NoData]

Outcomes(call) ==
    { Reply(200, TRUE, [result |-> "ok"]),
      Reply(200, TRUE, [result |-> "ok", tool |-> call.json.tool]),
      Reply(201, TRUE, [result |-> "ok"]),
      Reply(403, TRUE, [error |-> "forbidden"]),
      Reply(403, FALSE, [text |-> "Forbidden"]),
      ReadTimeout,
      ConnectError }

\* -------------------------------------------------------- caller responses
\* FastAPI serialises a returned value as a JSON response with status 200.
JSONResponse(content) == [status |-> 200, body |-> content]

\* An exception that escapes the handler is answered by Starlette's
\* ServerErrorMiddleware: 500 "Internal Server Error".
InternalServerError == [status |-> 500, body |-> [text |-> "Internal Server Error"]]

NoResponse == [status |-> 0, body |-> NoData]

\* `return res.json()` after the awaited post: an httpx exception propagates,
\* res.json() raises on a body that is not JSON, otherwise the parsed body is
\* returned (the status of `res` is not read).
ReturnOf(outcome) ==
    IF outcome.kind # "response" THEN InternalServerError
    ELSE IF ~outcome.is_json THEN InternalServerError
    ELSE JSONResponse(outcome.body)

\* ------------------------------------------------------------------- state
VARIABLES
    environ,    \* os.environ after load_dotenv()
    pc,         \* per handler: "idle", "reading", "awaiting", "done"
    request,    \* per handler: the inbound body
    locals,     \* per handler: the local variables of trigger_tool
    calls,      \* per handler: outbound POSTs issued for its request
    outcome,    \* per handler: how the awaited post ended
    response    \* per handler: what the caller receives

vars == <<environ, pc, request, locals, calls, outcome, response>>

Init ==
    /\ environ \in Environments
    /\ pc = [h \in Handlers |-> "idle"]
    /\ request = [h \in Handlers |-> NoBody]
    /\ locals = [h \in Handlers |-> NoLocals]
    /\ calls = [h \in Handlers |-> <<>>]
    /\ outcome = [h \in Handlers |-> NoOutcome]
    /\ response = [h \in Handlers |-> NoResponse]

\* A request arrives and trigger_tool starts: it suspends on
\* `await request.json()` until the body has been read.
Receive(h, body) ==
    /\ pc[h] = "idle"
    /\ pc' = [pc EXCEPT ![h] = "reading"]
    /\ request' = [request EXCEPT ![h] = body]
    /\ UNCHANGED <<environ, locals, calls, outcome, response>>

\* The locals assigned between the two awaits.
LocalsOf(env, data) ==
    [user_id |-> Get(data, "user_id"),
     tool_id |-> Get(data, "tool_id"),
     input_payload |-> Get(data, "input"),
     headers |-> AuthHeaders(env),
     webhook_url |-> getenv(env, "n8n_WEBHOOK_URL")]

\* The request client.post builds and sends.
CallOf(l) ==
    [url |-> l.webhook_url,
     headers |-> l.headers,
     json |-> OutboundJson(l.user_id, l.tool_id, l.input_payload)]

\* The body has been read; the handler runs up to `await client.post(...)`.
\*  - request.json() raises on text that is not JSON;
\*  - data.get raises AttributeError when the JSON is not an object;
\*  - client.post raises TypeError on a url of None, before any I/O;
\*  - otherwise the POST is sent and the handler suspends.
ParseAndPost(h) ==
    /\ pc[h] = "reading"
    /\ IF request[h].json # "object"
       THEN /\ pc' = [pc EXCEPT ![h] = "done"]
            /\ response' = [response EXCEPT ![h] = InternalServerError]
            /\ UNCHANGED <<locals, calls>>
       ELSE LET l == LocalsOf(environ, request[h].data) IN
            /\ locals' = [locals EXCEPT ![h] = l]
            /\ IF l.webhook_url = None
               THEN /\ pc' = [pc EXCEPT ![h] = "done"]
                    /\ response' = [response EXCEPT ![h] = InternalServerError]
                    /\ UNCHANGED calls
               ELSE /\ pc' = [pc EXCEPT ![h] = "awaiting"]
                    /\ calls' = [calls EXCEPT ![h] = Append(@, CallOf(l))]
                    /\ UNCHANGED response
    /\ UNCHANGED <<environ, request, outcome>>

\* The awaited post ends (a response arrives, or httpx raises after its
\* timeout or on a failed connection) and the handler runs `return res.json()`.
Complete(h) ==
    /\ pc[h] = "awaiting"
    /\ \E o \in Outcomes(calls[h][Len(calls[h])]) :
           /\ outcome' = [outcome EXCEPT ![h] = o]
           /\ response' = [response EXCEPT ![h] = ReturnOf(o)]
    /\ pc' = [pc EXCEPT ![h] = "done"]
    /\ UNCHANGED <<environ, request, locals, calls>>

\* The response has been written to the caller; the coroutine's frame is gone.
Close(h) ==
    /\ pc[h] = "done"
    /\ pc' = [pc EXCEPT ![h] = "idle"]
    /\ request' = [request EXCEPT ![h] = NoBody]
    /\ locals' = [locals EXCEPT ![h] = NoLocals]
    /\ calls' = [calls EXCEPT ![h] = <<>>]
    /\ outcome' = [outcome EXCEPT ![h] = NoOutcome]
    /\ response' = [response EXCEPT ![h] = NoResponse]
    /\ UNCHANGED environ

Next ==
    \E h \in Handlers :
        \/ \E body \in Bodies : Receive(h, body)
        \/ ParseAndPost(h)
        \/ Complete(h)
        \/ Close(h)

Spec == Init /\ [][Next]_vars

\* ------------------------------------------------------------ vocabulary
\* The handler has passed `await client.post(...)` or ended before it.
PastPost(h) == pc[h] \in {"awaiting", "done"}

Done(h) == pc[h] = "done"

Success(o) == o.kind = "response" /\ o.status \in 200..299

Rejected(o) == o.kind = "response" /\ o.status \notin 200..299

Unreachable(o) == o.kind \in {"timeout", "connect_error"}

ClientError(r) == r.status \in 400..499

ErrorResponse(r) == r.status \in 400..599

\* The outbound body the spec prescribes for an inbound JSON object.
Forwarded(data) ==
    [user |-> Get(data, "user_id"),
     tool |-> Get(data, "tool_id"),
     input |-> Get(data, "input")]

\* ------------------------------------------------------------------ claims

\* C1: for every valid request (non-empty user_id and tool_id, any input,
\* an absent input counting as null) every outbound POST issued for it has
\* the body {user: user_id, tool: tool_id, input: input} of that request,
\* with exactly these three fields.
C1_OutboundBodyIsRequest ==
    \A h \in Handlers :
        ValidRequest(request[h]) =>
            \A i \in 1..Len(calls[h]) :
                /\ DOMAIN calls[h][i].json = {"user", "tool", "input"}
                /\ calls[h][i].json = Forwarded(request[h].data)

\* A valid request without an input whose POST went out with input null.
C1_Witness ==
    \E h \in Handlers :
        /\ ValidRequest(request[h])
        /\ "input" \notin DOMAIN request[h].data
        /\ Len(calls[h]) = 1
        /\ calls[h][1].json = [user |-> "u1", tool |-> "t2", input |-> None]

\* C2: a request whose body is not valid JSON gets a 400-class response and
\* no outbound call is made for it.
C2_MalformedGets400NoCall ==
    \A h \in Handlers :
        request[h].json = "malformed" =>
            /\ Len(calls[h]) = 0
            /\ Done(h) => ClientError(response[h])

\* C3: a request whose JSON object lacks user_id or tool_id, or has one of
\* them empty, gets a 400-class response and no outbound call is made for it.
C3_MissingFieldGets400NoCall ==
    \A h \in Handlers :
        (request[h].json = "object" /\ ~ValidRequest(request[h])) =>
            /\ Len(calls[h]) = 0
            /\ Done(h) => ClientError(response[h])

\* C4: when the downstream call of a valid request succeeds, the caller gets
\* the downstream status code and the downstream JSON body, unchanged.
C4_SuccessPassedThrough ==
    \A h \in Handlers :
        (Done(h) /\ ValidRequest(request[h]) /\ Success(outcome[h]) /\ outcome[h].is_json) =>
            /\ response[h].status = outcome[h].status
            /\ response[h].body = outcome[h].body

\* C5: when the downstream answers a valid request with a non-success status,
\* the caller gets an error response that reflects the rejection: never a
\* success response and never the generic 500.
C5_RejectionSurfaced ==
    \A h \in Handlers :
        (Done(h) /\ ValidRequest(request[h]) /\ Rejected(outcome[h])) =>
            /\ ErrorResponse(response[h])
            /\ response[h] # InternalServerError
            /\ response[h].status = outcome[h].status \/ response[h].body = outcome[h].body

\* C6: when the downstream call of a valid request times out or cannot
\* connect, the caller's response is of the "downstream unreachable" class
\* (502/504), and that class differs from what a caller gets for a downstream
\* rejection.
C6_UnreachableIsDistinctClass ==
    \A h \in Handlers :
        (Done(h) /\ ValidRequest(request[h]) /\ Unreachable(outcome[h])) =>
            /\ response[h].status \in {502, 504}
            /\ \A g \in Handlers :
                   (Done(g) /\ Rejected(outcome[g])) => response[g].status # response[h].status

\* C7: every inbound request causes at most one outbound call and every
\* valid request exactly one (no second attempt after a failure).
C7_SingleAttempt ==
    \A h \in Handlers :
        /\ Len(calls[h]) <= 1
        /\ (ValidRequest(request[h]) /\ PastPost(h)) => Len(calls[h]) = 1

\* C8: two requests with different tool_id values in flight together make
\* two separate outbound calls, each carrying only the values of its own
\* request, and each caller gets the downstream response to its own call.
C8_ConcurrentRequestsIndependent ==
    \A h, g \in Handlers :
        ( /\ h # g
          /\ ValidRequest(request[h]) /\ ValidRequest(request[g])
          /\ request[h].data.tool_id # request[g].data.tool_id
          /\ PastPost(h) /\ PastPost(g) ) =>
            /\ Len(calls[h]) = 1 /\ Len(calls[g]) = 1
            /\ calls[h][1].json = Forwarded(request[h].data)
            /\ calls[g][1].json = Forwarded(request[g].data)
            /\ (Done(h) /\ outcome[h].kind = "response") => response[h].body = outcome[h].body

\* A request has failed: malformed or invalid body, downstream unreachable,
\* or downstream rejection.
Failed(h) ==
    /\ Done(h)
    /\ \/ ~ValidRequest(request[h])
       \/ Unreachable(outcome[h])
       \/ Rejected(outcome[h])

\* C9: failures are terminal for their own request only: every failed request
\* has an error response, the process configuration is untouched, and a step
\* of one handler leaves every other handler's request, calls and response
\* as they were.
C9_FailuresAreIsolated ==
    [][ /\ \A h \in Handlers : Failed(h)' => ErrorResponse(response'[h])
        /\ environ' = environ
        /\ \A h \in Handlers :
               pc'[h] # pc[h] =>
                   \A g \in Handlers \ {h} :
                       /\ request'[g] = request[g]
                       /\ calls'[g] = calls[g]
                       /\ response'[g] = response[g] ]_vars

\* C10: a process without the endpoint URL or without the credential never
\* accepts a request, so no request is ever handled with one of them missing.
C10_ConfigCheckedAtStartup ==
    \A h \in Handlers :
        pc[h] # "idle" =>
            /\ getenv(environ, "n8n_WEBHOOK_URL") # None
            /\ getenv(environ, "OPENAI_API_KEY") # None

====
